---------------------------- MODULE Spec2Model ----------------------------
(***************************************************************************)
(* A model of autoplate: the program that fetches the newest vehicle       *)
(* registration archive from an FTP server, spools it to a temporary file, *)
(* scans every XML entry of the archive token by token and prints the      *)
(* first plates of the resulting registry.                                 *)
(*                                                                         *)
(* The repository holds two programs of package main:                      *)
(*   prog = "part_000"   src/unnamed/part_000 (map registry, -file flag)   *)
(*   prog = "autoplate"  src/autoplate.go     (go-memdb registry)          *)
(* Both are modelled; actions and operators of src/autoplate.go carry the  *)
(* prefix Legacy.                                                          *)
(*                                                                         *)
(* Strings are sequences of one-character strings, so that suffix tests,   *)
(* lower-casing, concatenation and byte-wise comparison are computed.      *)
(***************************************************************************)
EXTENDS Integers, Sequences, FiniteSets, TLC

VARIABLES
    prog,           \* which of the two programs runs
    pc,             \* position of the program
    fileInput,      \* value of the -file flag (<<>>: not given)
    exit,           \* exit status of the process, -1 while it runs
    fatal,          \* history: the failure that ended the run, "none" if none
    spool,          \* the temporary file: "none", "present", "removed"
    steps,          \* history: the steps completed so far, in order
    entries,        \* the remote listing returned by conn.List
    newestZip,      \* index into entries of the selected entry, 0 for nil
    total,          \* ProgressReader.total
    current,        \* ProgressReader.current
    lastPrint,      \* ProgressReader.lastPrint
    emitted,        \* history: the percentages printed by ProgressReader.Read
    reads,          \* history: the number of Read calls
    plates,         \* the registry: identifier -> description
    processedCount, \* processedCount of processZipFile / processZipStream
    count,          \* processedCount of the running (or last) streamXML call
    printedCount,   \* the count printed by "Successfully processed", -1 if none
    scanned,        \* history: the outcome of every DecodeElement call
    zipTotal,       \* number of entries of the opened archive
    zipLeft,        \* archive entries the range loop has not visited yet
    rcOpen,         \* an entry stream is open
    entryLog,       \* history: what happened to each visited archive entry
    warnings,       \* number of "Warning:" lines logged
    out             \* what displayResults printed

vars == <<prog, pc, fileInput, exit, fatal, spool, steps, entries, newestZip,
          total, current, lastPrint, emitted, reads, plates, processedCount,
          count, printedCount, scanned, zipTotal, zipLeft, rcOpen, entryLog, warnings,
          out>>

runVars  == <<exit, fatal, spool, steps>>
listVars == <<entries, newestZip>>
progVars == <<total, current, lastPrint, emitted, reads>>
scanVars == <<plates, processedCount, count, printedCount, scanned, zipTotal,
              zipLeft, rcOpen, entryLog, warnings>>

-----------------------------------------------------------------------------
(* Bounds of the model *)

MaxEntries    == 3   \* longest remote listing
MaxTime       == 2   \* modification times are 1..MaxTime
MaxTotal      == 7   \* largest declared size of the download
MaxBytes      == 9   \* most bytes a download delivers
MaxChunk      == 3   \* most bytes one Read returns
MaxReads      == 5   \* most Read calls of a download
MaxZipEntries == 2   \* most entries of an archive
MaxScanned    == 3   \* most record elements decoded in one run
MaxPlates     == 11  \* most plates of a registry handed to displayResults

(* Program constants *)

DisplayLimit     == 10   \* displayLimit of displayResults
LegacyBreakIndex == 9    \* the index at which the legacy loop stops
LegacyShown      == 10   \* the rows the legacy remainder line subtracts

-----------------------------------------------------------------------------
(* Strings *)

\* The characters used, in byte order.
Chars == <<" ", ".", "1", "2", "I", "K", "P", "U", "V", "W", "X", "Z",
           "a", "i", "l", "m", "p", "t", "x", "z">>

Ord(c) == CHOOSE i \in 1..Len(Chars) : Chars[i] = c

\* unicode.ToLower on the characters used
LowerChar(c) ==
    CASE c = "I" -> "i"
      [] c = "P" -> "p"
      [] c = "X" -> "x"
      [] c = "Z" -> "z"
      [] OTHER -> c

ToLower(s) == [i \in 1..Len(s) |-> LowerChar(s[i])]

HasSuffix(s, suffix) ==
    /\ Len(s) >= Len(suffix)
    /\ SubSeq(s, Len(s) - Len(suffix) + 1, Len(s)) = suffix

\* Go's < on strings: byte-wise lexicographic, a proper prefix is smaller.
RECURSIVE StrLess(_, _)
StrLess(a, b) ==
    IF b = <<>> THEN FALSE
    ELSE IF a = <<>> THEN TRUE
    ELSE IF a[1] # b[1] THEN Ord(a[1]) < Ord(b[1])
    ELSE StrLess(Tail(a), Tail(b))

DotZip == <<".", "z", "i", "p">>
DotXml == <<".", "x", "m", "l">>

-----------------------------------------------------------------------------
(* The inputs the environment supplies *)

Progs == {"part_000", "autoplate"}

\* Values of the -file flag: none, an XML file, an archive, another type, and
\* a path shorter than an extension.
Paths == { <<>>,
           <<"a", ".", "X", "m", "l">>,
           <<"a", ".", "z", "i", "p">>,
           <<"a", ".", "t", "x", "t">>,
           <<"x", "m", "l">> }

\* Names of remote files.
RemoteNames == { <<"a", ".", "z", "i", "p">>,
                 <<".", "z", "i", "p">>,
                 <<"a", ".", "Z", "I", "P">>,
                 <<"a", ".", "x", "m", "l">> }

\* An ftp.Entry: the fields the selection reads.
RemoteEntries == [Name : RemoteNames, Type : {"file", "folder"}, Time : 1..MaxTime]

Listings(n) == UNION { [1..k -> RemoteEntries] : k \in 0..n }

\* The listings a whole run draws from: an empty one, one without an archive
\* and one with two archives.
RunListings ==
    { <<>>,
      <<[Name |-> <<"a", ".", "x", "m", "l">>, Type |-> "file", Time |-> 2]>>,
      <<[Name |-> <<".", "z", "i", "p">>,      Type |-> "file", Time |-> 2],
        [Name |-> <<"a", ".", "z", "i", "p">>, Type |-> "file", Time |-> 1]>> }

\* Names of archive entries.
ZipNames == { <<"a", ".", "X", "m", "l">>, <<"a", ".", "t", "x", "t">> }

ZipEntries == [Name : ZipNames, IsDir : BOOLEAN]

\* What DecodeElement can produce for one record element: a decoded record
\* (identifier, make, model) or a failure.
IdA == <<"V", "1">>
IdB == <<"K", "2">>

Records ==
    { [ok |-> TRUE, id |-> IdA,  make |-> <<"V", "W">>,      model |-> <<"U", "p">>],
      [ok |-> TRUE, id |-> IdA,  make |-> <<"K", "i", "a">>, model |-> <<"U", "p">>],
      [ok |-> TRUE, id |-> IdB,  make |-> <<"V", "W">>,      model |-> <<>>],
      [ok |-> TRUE, id |-> <<>>, make |-> <<"V", "W">>,      model |-> <<"U", "p">>] }

Malformed == [ok |-> FALSE, id |-> <<>>, make |-> <<>>, model |-> <<>>]

DecodeOutcomes == Records \cup {Malformed}

-----------------------------------------------------------------------------
(* Selection of the newest archive *)

\* entry.Type == ftp.EntryTypeFile && strings.HasSuffix(entry.Name, ".zip")
IsZipCandidate(e) == e.Type = "file" /\ HasSuffix(e.Name, DotZip)

\* entry.Type == ftp.EntryTypeFile && len(entry.Name) > 4 &&
\* entry.Name[len(entry.Name)-4:] == ".zip"
LegacyIsZipCandidate(e) ==
    /\ e.Type = "file"
    /\ Len(e.Name) > 4
    /\ SubSeq(e.Name, Len(e.Name) - 3, Len(e.Name)) = DotZip

\* The loop over the listing from entry i on; best is newestZip (0: nil).
RECURSIVE NewestFrom(_, _, _)
NewestFrom(es, i, best) ==
    IF i > Len(es) THEN best
    ELSE IF IsZipCandidate(es[i]) /\ (best = 0 \/ es[i].Time > es[best].Time)
         THEN NewestFrom(es, i + 1, i)
         ELSE NewestFrom(es, i + 1, best)

NewestZip(es) == NewestFrom(es, 1, 0)

RECURSIVE LegacyNewestFrom(_, _, _)
LegacyNewestFrom(es, i, best) ==
    IF i > Len(es) THEN best
    ELSE IF LegacyIsZipCandidate(es[i]) /\ (best = 0 \/ es[i].Time > es[best].Time)
         THEN LegacyNewestFrom(es, i + 1, i)
         ELSE LegacyNewestFrom(es, i + 1, best)

LegacyNewestZip(es) == LegacyNewestFrom(es, 1, 0)

\* A selection that never reports "no zip files".
SelectionFailsNever(nz) == FALSE

\* if newestZip == nil: no zip files found
SelectionFails(nz) == nz = 0

-----------------------------------------------------------------------------
(* How a run ends *)

\* A main that logs the error and returns.
ExitStatusAlwaysZero(failed) == 0

\* log.Fatalf exits with status 1; returning from main exits with status 0.
ExitStatus(failed) == IF failed THEN 1 ELSE 0

\* A step that succeeded.
Step(next, name) ==
    /\ pc' = next
    /\ steps' = Append(steps, name)
    /\ UNCHANGED <<exit, fatal, spool>>

\* part_000: the function returns an error, its deferred calls run (the
\* temporary file, once created, is closed and removed) and main ends the
\* process with log.Fatalf.
ReturnError(kind) ==
    /\ pc' = "exited"
    /\ exit' = ExitStatus(TRUE)
    /\ fatal' = kind
    /\ spool' = IF spool = "present" THEN "removed" ELSE spool
    /\ UNCHANGED steps

\* autoplate.go: main itself calls log.Fatalf, which exits at once: the
\* deferred calls of main do not run.
LegacyFatalf(kind) ==
    /\ pc' = "exited"
    /\ exit' = ExitStatus(TRUE)
    /\ fatal' = kind
    /\ UNCHANGED <<spool, steps>>

-----------------------------------------------------------------------------
(* The registry and the record scan *)

EmptyMap == <<>>

\* A registry that keeps the first description of an identifier.
PutIfAbsent(m, k, v) ==
    [x \in DOMAIN m \cup {k} |-> IF x \in DOMAIN m THEN m[x] ELSE v]

\* plates[k] = v
Put(m, k, v) == [x \in DOMAIN m \cup {k} |-> IF x = k THEN v ELSE m[x]]

\* sb.WriteString(make); sb.WriteString(" "); sb.WriteString(model)
MakeModel(r) == r.make \o <<" ">> \o r.model

\* The registry after one decoded record (part_000): a record without an
\* identifier is dropped.
Register(m, r) == IF r.id # <<>> THEN Put(m, r.id, MakeModel(r)) ELSE m

\* The registry after one decoded record (autoplate.go): txn.Insert of
\* LicensePlate{Plate, Timestamp} under the unique index on Plate; the
\* registry keeps the plate alone.
LegacyRegister(m, r) == IF r.id # <<>> THEN Put(m, r.id, <<>>) ELSE m

\* A count that also counts the records without an identifier.
CountEveryRecord(c, r) == IF r.ok THEN c + 1 ELSE c

\* processedCount after one DecodeElement call: a failed decode and a record
\* without an identifier leave it alone.
CountAfter(c, r) == IF r.ok /\ r.id # <<>> THEN c + 1 ELSE c

\* A loop that stops at the first entry it cannot scan.
EntriesLeftBreak(left) == 0

\* The entries the range loop still visits after it gave up on an entry
\* (continue).
EntriesLeftAfterWarning(left) == left

\* strings.HasSuffix(strings.ToLower(zipFile.Name), ".xml")
IsXmlEntry(e) == HasSuffix(ToLower(e.Name), DotXml)

\* ext := strings.ToLower(filePath[len(filePath)-4:]); only for paths of four
\* characters or more (a shorter one panics).
Ext(path) == ToLower(SubSeq(path, Len(path) - 3, Len(path)))

\* Where the scan runs: on a local XML file, or on the entries of an archive.
ScansLocalXml == prog = "part_000" /\ Len(fileInput) >= 4 /\ Ext(fileInput) = DotXml

-----------------------------------------------------------------------------
(* The report *)

Min(a, b) == IF a < b THEN a ELSE b

RECURSIVE SetToSeq(_)
SetToSeq(S) ==
    IF S = {} THEN <<>>
    ELSE LET x == CHOOSE y \in S : TRUE IN <<x>> \o SetToSeq(S \ {x})

Rotate(s, r) ==
    IF s = <<>> THEN s
    ELSE LET k == r % Len(s) IN SubSeq(s, k + 1, Len(s)) \o SubSeq(s, 1, k)

\* for plate, makeModel := range plates: the keys in one of the orders the
\* map iteration can produce.
MapRange(m, r) == Rotate(SetToSeq(DOMAIN m), r)

\* Insert k into the sorted sequence s.
RECURSIVE InsertSorted(_, _)
InsertSorted(s, k) ==
    IF s = <<>> THEN <<k>>
    ELSE IF StrLess(k, Head(s)) THEN <<k>> \o s
    ELSE <<Head(s)>> \o InsertSorted(Tail(s), k)

\* sort.Slice(entries, func(i, j) { entries[i].plate < entries[j].plate }) and
\* sort.Strings(plates)
RECURSIVE SortKeys(_)
SortKeys(s) == IF s = <<>> THEN <<>> ELSE InsertSorted(SortKeys(Tail(s)), Head(s))

\* What displayResults of part_000 prints for the keys in iteration order:
\* the rows and, when there is one, the number of the "... and N more" line.
Display(keys) ==
    LET sorted == SortKeys(keys)
        limit  == Min(Len(sorted), DisplayLimit)
    IN  [rows |-> SubSeq(sorted, 1, limit),
         more |-> IF Len(sorted) > limit THEN <<Len(sorted) - limit>> ELSE <<>>]

\* What displayResults of autoplate.go prints: a row per plate, and after the
\* row of index 9 the "... and N more" line with N = len(plates)-10, then
\* break.
LegacyDisplay(keys) ==
    LET sorted == SortKeys(keys)
    IN  [rows |-> SubSeq(sorted, 1, Min(Len(sorted), LegacyBreakIndex + 1)),
         more |-> IF Len(sorted) > LegacyBreakIndex
                  THEN <<Len(sorted) - LegacyShown>> ELSE <<>>]

NoOutput == [rows |-> <<>>, more |-> <<>>]

-----------------------------------------------------------------------------
(* The progress reader *)

\* A reader that prints whenever the percentage has not fallen.
ShouldPrintNotLess(percentDone, last) == percentDone >= last

\* if percentDone > pr.lastPrint
ShouldPrint(percentDone, last) == percentDone > last

\* percentDone := (pr.current * 100) / pr.total
PercentDone(cur, tot) == (cur * 100) \div tot

-----------------------------------------------------------------------------
(* Initial states *)

InitRun ==
    /\ exit = -1
    /\ fatal = "none"
    /\ spool = "none"
    /\ steps = <<>>
    /\ entries = <<>>
    /\ newestZip = 0
    /\ out = NoOutput

InitProgressReader ==
    /\ current = 0
    /\ lastPrint = 0
    /\ emitted = <<>>
    /\ reads = 0

InitScan ==
    /\ plates = EmptyMap
    /\ processedCount = 0
    /\ count = 0
    /\ printedCount = -1
    /\ scanned = <<>>
    /\ zipTotal = 0
    /\ zipLeft = 0
    /\ rcOpen = FALSE
    /\ entryLog = <<>>
    /\ warnings = 0

\* A run from its start: part_000 with any value of the -file flag,
\* autoplate.go (which has no flag) at its first call.
Init ==
    /\ prog \in Progs
    /\ fileInput \in (IF prog = "part_000" THEN Paths ELSE {<<>>})
    /\ pc = (IF prog = "part_000" THEN "main" ELSE "dial")
    /\ total = 0
    /\ InitRun
    /\ InitProgressReader
    /\ InitScan

-----------------------------------------------------------------------------
(* part_000: main and the remote path (downloadAndProcess) *)

Main ==
    /\ pc = "main"
    /\ prog = "part_000"
    /\ plates' = EmptyMap
    /\ pc' = (IF fileInput # <<>> THEN "local" ELSE "dial")
    /\ UNCHANGED <<prog, fileInput, runVars, listVars, progVars, processedCount,
                   count, printedCount, scanned, zipTotal, zipLeft, rcOpen,
                   entryLog, warnings, out>>

\* A call of the remote path that either succeeds or makes downloadAndProcess
\* return its error.
RemoteCall(at, next, name, kind) ==
    /\ pc = at
    /\ prog = "part_000"
    /\ \E ok \in BOOLEAN : IF ok THEN Step(next, name) ELSE ReturnError(kind)
    /\ UNCHANGED <<prog, fileInput, listVars, progVars, scanVars, out>>

Dial == RemoteCall("dial", "login", "connect", "connect")

Login == RemoteCall("login", "chdir", "login", "login")

ChangeDir == RemoteCall("chdir", "list", "chdir", "chdir")

List ==
    /\ pc = "list"
    /\ prog = "part_000"
    /\ \/ /\ entries' \in RunListings
          /\ Step("select", "list")
       \/ /\ ReturnError("list")
          /\ UNCHANGED entries
    /\ UNCHANGED <<prog, fileInput, newestZip, progVars, scanVars, out>>

SelectNewest ==
    /\ pc = "select"
    /\ prog = "part_000"
    /\ newestZip' = NewestZip(entries)
    /\ IF SelectionFails(newestZip') THEN ReturnError("select")
                                      ELSE Step("retr", "select")
    /\ UNCHANGED <<prog, fileInput, entries, progVars, scanVars, out>>

Retr == RemoteCall("retr", "mktemp", "retrieve", "retrieve")

CreateTemp ==
    /\ pc = "mktemp"
    /\ prog = "part_000"
    /\ \/ /\ pc' = "copy"
          /\ spool' = "present"
          /\ steps' = Append(steps, "spool")
          /\ UNCHANGED <<exit, fatal>>
       \/ ReturnError("tempfile")
    /\ UNCHANGED <<prog, fileInput, listVars, progVars, scanVars, out>>

\* io.Copy of the whole download as one step: it ends with the end of the
\* stream or with an error. The reads it is made of are the action Read.
Transfer ==
    /\ pc = "copy"
    /\ prog = "part_000"
    /\ \E ok \in BOOLEAN :
          IF ok THEN Step("zip_open", "transfer") ELSE ReturnError("transfer")
    /\ UNCHANGED <<prog, fileInput, listVars, progVars, scanVars, out>>

-----------------------------------------------------------------------------
(* part_000: the local path (processLocalFile) *)

ProcessLocalFile ==
    /\ pc = "local"
    /\ prog = "part_000"
    /\ IF Len(fileInput) < 4
       THEN \* filePath[len(filePath)-4:] panics: slice bounds out of range
            /\ pc' = "exited"
            /\ exit' = 2
            /\ fatal' = "panic"
            /\ UNCHANGED <<spool, steps, rcOpen, count>>
       ELSE IF Ext(fileInput) = DotXml
       THEN \E ok \in BOOLEAN :
               IF ok THEN /\ pc' = "stream"
                          /\ rcOpen' = TRUE
                          /\ count' = 0
                          /\ UNCHANGED <<exit, fatal, spool, steps>>
                     ELSE /\ ReturnError("local_open")
                          /\ UNCHANGED <<rcOpen, count>>
       ELSE IF Ext(fileInput) = DotZip
       THEN /\ pc' = "zip_open"
            /\ UNCHANGED <<exit, fatal, spool, steps, rcOpen, count>>
       ELSE /\ ReturnError("unsupported")
            /\ UNCHANGED <<rcOpen, count>>
    /\ UNCHANGED <<prog, fileInput, listVars, progVars, plates, processedCount,
                   printedCount, scanned, zipTotal, zipLeft, entryLog, warnings,
                   out>>

-----------------------------------------------------------------------------
(* part_000: the archive (processZipFile) and the record scan (streamXML) *)

LogEntry(res) == Append(entryLog, [res |-> res, n |-> count])

ZipOpen ==
    /\ pc = "zip_open"
    /\ prog = "part_000"
    /\ \/ \E n \in 0..MaxZipEntries :
             /\ zipTotal' = n
             /\ zipLeft' = n
             /\ processedCount' = 0
             /\ Step("zip_loop", "archive")
       \/ /\ ReturnError("archive_open")
          /\ UNCHANGED <<zipTotal, zipLeft, processedCount>>
    /\ UNCHANGED <<prog, fileInput, listVars, progVars, plates, count,
                   printedCount, scanned, rcOpen, entryLog, warnings, out>>

\* One turn of the range loop up to the call of streamXML: the entry is
\* skipped (a directory, or no .xml name), cannot be opened, or is opened.
ZipEntry ==
    /\ pc = "zip_loop"
    /\ prog = "part_000"
    /\ zipLeft > 0
    /\ \E e \in ZipEntries, opens \in BOOLEAN :
          IF e.IsDir \/ ~IsXmlEntry(e)
          THEN /\ zipLeft' = zipLeft - 1
               /\ entryLog' = Append(entryLog, [res |-> "skip", n |-> 0])
               /\ UNCHANGED <<pc, rcOpen, count, warnings>>
          ELSE IF ~opens
          THEN /\ warnings' = warnings + 1
               /\ zipLeft' = EntriesLeftAfterWarning(zipLeft - 1)
               /\ entryLog' = Append(entryLog, [res |-> "openfail", n |-> 0])
               /\ UNCHANGED <<pc, rcOpen, count>>
          ELSE /\ rcOpen' = TRUE
               /\ count' = 0
               /\ zipLeft' = zipLeft - 1
               /\ pc' = "stream"
               /\ UNCHANGED <<entryLog, warnings>>
    /\ UNCHANGED <<prog, fileInput, runVars, listVars, progVars, plates,
                   processedCount, printedCount, scanned, zipTotal, out>>

\* decoder.Token() returns a start element named Statistik and DecodeElement
\* decodes it or fails.
StreamRecord ==
    /\ pc = "stream"
    /\ prog = "part_000"
    /\ Len(scanned) < MaxScanned
    /\ \E r \in DecodeOutcomes :
          /\ scanned' = Append(scanned, r)
          /\ warnings' = (IF r.ok THEN warnings ELSE warnings + 1)
          /\ plates' = (IF r.ok THEN Register(plates, r) ELSE plates)
          /\ count' = CountAfter(count, r)
    /\ UNCHANGED <<prog, pc, fileInput, runVars, listVars, progVars,
                   processedCount, printedCount, zipTotal, zipLeft, rcOpen,
                   entryLog, out>>

\* decoder.Token() returns any other token.
StreamOther ==
    /\ pc = "stream"
    /\ prog = "part_000"
    /\ UNCHANGED vars

\* decoder.Token() returns io.EOF: streamXML returns (count, nil) and its
\* caller goes on, processLocalFile to its summary line, processZipFile to the
\* next entry.
StreamEOF ==
    /\ pc = "stream"
    /\ prog = "part_000"
    /\ rcOpen' = FALSE
    /\ IF ScansLocalXml
       THEN /\ printedCount' = count
            /\ pc' = "display"
            /\ UNCHANGED <<processedCount, entryLog>>
       ELSE /\ processedCount' = processedCount + count
            /\ entryLog' = LogEntry("ok")
            /\ pc' = "zip_loop"
            /\ UNCHANGED printedCount
    /\ UNCHANGED <<prog, fileInput, runVars, listVars, progVars, plates, count,
                   scanned, zipTotal, zipLeft, warnings, out>>

\* decoder.Token() returns an error: streamXML returns (count, error).
\* processLocalFile returns the error; processZipFile closes the entry, logs a
\* warning and continues without adding the count.
StreamError ==
    /\ pc = "stream"
    /\ prog = "part_000"
    /\ rcOpen' = FALSE
    /\ IF ScansLocalXml
       THEN /\ ReturnError("local_stream")
            /\ UNCHANGED <<warnings, entryLog, zipLeft>>
       ELSE /\ warnings' = warnings + 1
            /\ entryLog' = LogEntry("err")
            /\ zipLeft' = EntriesLeftAfterWarning(zipLeft)
            /\ pc' = "zip_loop"
            /\ UNCHANGED <<exit, fatal, spool, steps>>
    /\ UNCHANGED <<prog, fileInput, listVars, progVars, plates, processedCount,
                   count, printedCount, scanned, zipTotal, out>>

\* The range loop is over: processZipFile prints the count and returns nil;
\* on the remote path downloadAndProcess returns with it and its deferred
\* calls close and remove the temporary file.
ZipDone ==
    /\ pc = "zip_loop"
    /\ prog = "part_000"
    /\ zipLeft = 0
    /\ printedCount' = processedCount
    /\ spool' = (IF spool = "present" THEN "removed" ELSE spool)
    /\ pc' = "display"
    /\ UNCHANGED <<prog, fileInput, exit, fatal, steps, listVars, progVars,
                   plates, processedCount, count, scanned, zipTotal, zipLeft,
                   rcOpen, entryLog, warnings, out>>

\* displayResults, after which main returns.
DisplayResults ==
    /\ pc = "display"
    /\ prog = "part_000"
    /\ \E r \in 0..Cardinality(DOMAIN plates) : out' = Display(MapRange(plates, r))
    /\ exit' = ExitStatus(FALSE)
    /\ steps' = Append(steps, "report")
    /\ pc' = "exited"
    /\ UNCHANGED <<prog, fileInput, fatal, spool, listVars, progVars, scanVars>>

-----------------------------------------------------------------------------
(* autoplate.go: main *)

\* A call that either succeeds or ends the process with log.Fatalf.
LegacyCall(at, next, name, kind) ==
    /\ pc = at
    /\ prog = "autoplate"
    /\ \E ok \in BOOLEAN : IF ok THEN Step(next, name) ELSE LegacyFatalf(kind)
    /\ UNCHANGED <<prog, fileInput, listVars, progVars, scanVars, out>>

LegacyDial == LegacyCall("dial", "login", "connect", "connect")

LegacyLogin == LegacyCall("login", "chdir", "login", "login")

LegacyChangeDir == LegacyCall("chdir", "list", "chdir", "chdir")

LegacyList ==
    /\ pc = "list"
    /\ prog = "autoplate"
    /\ \/ /\ entries' \in RunListings
          /\ Step("select", "list")
       \/ /\ LegacyFatalf("list")
          /\ UNCHANGED entries
    /\ UNCHANGED <<prog, fileInput, newestZip, progVars, scanVars, out>>

LegacySelectNewest ==
    /\ pc = "select"
    /\ prog = "autoplate"
    /\ newestZip' = LegacyNewestZip(entries)
    /\ IF SelectionFails(newestZip') THEN LegacyFatalf("select")
                                      ELSE Step("retr", "select")
    /\ UNCHANGED <<prog, fileInput, entries, progVars, scanVars, out>>

LegacyRetr == LegacyCall("retr", "mktemp", "retrieve", "retrieve")

LegacyCreateTemp ==
    /\ pc = "mktemp"
    /\ prog = "autoplate"
    /\ \/ /\ pc' = "memdb"
          /\ spool' = "present"
          /\ steps' = Append(steps, "spool")
          /\ UNCHANGED <<exit, fatal>>
       \/ LegacyFatalf("tempfile")
    /\ UNCHANGED <<prog, fileInput, listVars, progVars, scanVars, out>>

\* setupMemDB: the schema is a constant and valid one, so memdb.NewMemDB
\* returns an empty database.
LegacySetupMemDB ==
    /\ pc = "memdb"
    /\ prog = "autoplate"
    /\ plates' = EmptyMap
    /\ pc' = "copy"
    /\ UNCHANGED <<prog, fileInput, runVars, listVars, progVars, processedCount,
                   count, printedCount, scanned, zipTotal, zipLeft, rcOpen,
                   entryLog, warnings, out>>

\* io.Copy of the whole download as one step.
LegacyTransfer ==
    /\ pc = "copy"
    /\ prog = "autoplate"
    /\ \E ok \in BOOLEAN :
          IF ok THEN Step("seek", "transfer") ELSE LegacyFatalf("transfer")
    /\ UNCHANGED <<prog, fileInput, listVars, progVars, scanVars, out>>

LegacySeek ==
    /\ pc = "seek"
    /\ prog = "autoplate"
    /\ \/ /\ pc' = "zip_open"
          /\ UNCHANGED <<exit, fatal, spool, steps>>
       \/ LegacyFatalf("seek")
    /\ UNCHANGED <<prog, fileInput, listVars, progVars, scanVars, out>>

-----------------------------------------------------------------------------
(* autoplate.go: processZipStream *)

\* zip.NewReader; on success the write transaction is opened. Every insert
\* below goes to that transaction, which LegacyZipDone commits: no path ends
\* processZipStream between the two.
LegacyZipOpen ==
    /\ pc = "zip_open"
    /\ prog = "autoplate"
    /\ \/ \E n \in 0..MaxZipEntries :
             /\ zipTotal' = n
             /\ zipLeft' = n
             /\ processedCount' = 0
             /\ Step("zip_loop", "archive")
       \/ /\ LegacyFatalf("archive_open")
          /\ UNCHANGED <<zipTotal, zipLeft, processedCount>>
    /\ UNCHANGED <<prog, fileInput, listVars, progVars, plates, count,
                   printedCount, scanned, rcOpen, entryLog, warnings, out>>

\* One turn of the range loop up to the token loop: a directory is skipped,
\* every other entry is opened whatever its name. count is history here: the
\* records this entry registered.
LegacyZipEntry ==
    /\ pc = "zip_loop"
    /\ prog = "autoplate"
    /\ zipLeft > 0
    /\ \E e \in ZipEntries, opens \in BOOLEAN :
          IF e.IsDir
          THEN /\ zipLeft' = zipLeft - 1
               /\ entryLog' = Append(entryLog, [res |-> "skip", n |-> 0])
               /\ UNCHANGED <<pc, rcOpen, count, warnings>>
          ELSE IF ~opens
          THEN /\ warnings' = warnings + 1
               /\ zipLeft' = zipLeft - 1
               /\ entryLog' = Append(entryLog, [res |-> "openfail", n |-> 0])
               /\ UNCHANGED <<pc, rcOpen, count>>
          ELSE /\ rcOpen' = TRUE
               /\ count' = 0
               /\ zipLeft' = zipLeft - 1
               /\ pc' = "stream"
               /\ UNCHANGED <<entryLog, warnings>>
    /\ UNCHANGED <<prog, fileInput, runVars, listVars, progVars, plates,
                   processedCount, printedCount, scanned, zipTotal, out>>

\* A start element named Vehicle: DecodeElement decodes it or fails.
LegacyStreamRecord ==
    /\ pc = "stream"
    /\ prog = "autoplate"
    /\ Len(scanned) < MaxScanned
    /\ \E r \in DecodeOutcomes :
          /\ scanned' = Append(scanned, r)
          /\ warnings' = (IF r.ok THEN warnings ELSE warnings + 1)
          /\ plates' = (IF r.ok THEN LegacyRegister(plates, r) ELSE plates)
          /\ processedCount' = CountAfter(processedCount, r)
          /\ count' = CountAfter(count, r)
    /\ UNCHANGED <<prog, pc, fileInput, runVars, listVars, progVars,
                   printedCount, zipTotal, zipLeft, rcOpen, entryLog, out>>

LegacyStreamOther ==
    /\ pc = "stream"
    /\ prog = "autoplate"
    /\ UNCHANGED vars

\* io.EOF: break, rc.Close().
LegacyStreamEOF ==
    /\ pc = "stream"
    /\ prog = "autoplate"
    /\ rcOpen' = FALSE
    /\ entryLog' = LogEntry("ok")
    /\ pc' = "zip_loop"
    /\ UNCHANGED <<prog, fileInput, runVars, listVars, progVars, plates,
                   processedCount, count, printedCount, scanned, zipTotal,
                   zipLeft, warnings, out>>

\* A token error: warning, break, rc.Close().
LegacyStreamError ==
    /\ pc = "stream"
    /\ prog = "autoplate"
    /\ rcOpen' = FALSE
    /\ warnings' = warnings + 1
    /\ entryLog' = LogEntry("err")
    /\ pc' = "zip_loop"
    /\ UNCHANGED <<prog, fileInput, runVars, listVars, progVars, plates,
                   processedCount, count, printedCount, scanned, zipTotal,
                   zipLeft, out>>

\* txn.Commit(), the summary line, return nil.
LegacyZipDone ==
    /\ pc = "zip_loop"
    /\ prog = "autoplate"
    /\ zipLeft = 0
    /\ printedCount' = processedCount
    /\ pc' = "display"
    /\ UNCHANGED <<prog, fileInput, runVars, listVars, progVars, plates,
                   processedCount, count, scanned, zipTotal, zipLeft, rcOpen,
                   entryLog, warnings, out>>

\* displayResults, after which main returns and its deferred calls run: the
\* temporary file is closed and removed.
LegacyDisplayResults ==
    /\ pc = "display"
    /\ prog = "autoplate"
    /\ \E r \in 0..Cardinality(DOMAIN plates) :
          out' = LegacyDisplay(MapRange(plates, r))
    /\ exit' = ExitStatus(FALSE)
    /\ spool' = (IF spool = "present" THEN "removed" ELSE spool)
    /\ steps' = Append(steps, "report")
    /\ pc' = "exited"
    /\ UNCHANGED <<prog, fileInput, fatal, listVars, progVars, scanVars>>

-----------------------------------------------------------------------------
(* The whole program *)

Next ==
    \/ Main \/ Dial \/ Login \/ ChangeDir \/ List \/ SelectNewest \/ Retr
    \/ CreateTemp \/ Transfer \/ ProcessLocalFile
    \/ ZipOpen \/ ZipEntry \/ StreamRecord \/ StreamOther \/ StreamEOF
    \/ StreamError \/ ZipDone \/ DisplayResults
    \/ LegacyDial \/ LegacyLogin \/ LegacyChangeDir \/ LegacyList
    \/ LegacySelectNewest \/ LegacyRetr \/ LegacyCreateTemp \/ LegacySetupMemDB
    \/ LegacyTransfer \/ LegacySeek
    \/ LegacyZipOpen \/ LegacyZipEntry \/ LegacyStreamRecord
    \/ LegacyStreamOther \/ LegacyStreamEOF \/ LegacyStreamError
    \/ LegacyZipDone \/ LegacyDisplayResults

Spec == Init /\ [][Next]_vars

-----------------------------------------------------------------------------
(* The selection alone, on every listing up to MaxEntries entries *)

InitSelect ==
    /\ prog \in Progs
    /\ fileInput = <<>>
    /\ pc = "select"
    /\ exit = -1
    /\ fatal = "none"
    /\ spool = "none"
    /\ steps = <<"connect", "login", "chdir", "list">>
    /\ entries \in Listings(MaxEntries)
    /\ newestZip = 0
    /\ out = NoOutput
    /\ total = 0
    /\ InitProgressReader
    /\ InitScan

NextSelect == SelectNewest \/ LegacySelectNewest

SpecSelect == InitSelect /\ [][NextSelect]_vars

-----------------------------------------------------------------------------
(* The transfer alone, read by read *)

\* int64(newestZip.Size): the declared size, 0 when the server gives none and
\* negative when the unsigned size does not fit.
TotalSizes == -1..MaxTotal

TransferListing ==
    <<[Name |-> <<"a", ".", "z", "i", "p">>, Type |-> "file", Time |-> 1]>>

\* The state in which io.Copy starts: the reader was built with the declared
\* size and has read nothing.
InitProgress ==
    /\ prog \in Progs
    /\ fileInput = <<>>
    /\ pc = "copy"
    /\ exit = -1
    /\ fatal = "none"
    /\ spool = "present"
    /\ steps = <<"connect", "login", "chdir", "list", "select", "retrieve", "spool">>
    /\ entries = TransferListing
    /\ newestZip = 1
    /\ out = NoOutput
    /\ total \in TotalSizes
    /\ InitProgressReader
    /\ InitScan

\* ProgressReader.Read: the wrapped reader returns n bytes.
Read ==
    /\ pc = "copy"
    /\ reads < MaxReads
    /\ reads' = reads + 1
    /\ \E n \in 0..MaxChunk :
          /\ current + n <= MaxBytes
          /\ current' = current + n
    /\ IF total > 0 /\ ShouldPrint(PercentDone(current', total), lastPrint)
       THEN /\ lastPrint' = PercentDone(current', total)
            /\ emitted' = Append(emitted, PercentDone(current', total))
       ELSE UNCHANGED <<lastPrint, emitted>>
    /\ UNCHANGED <<prog, pc, fileInput, runVars, listVars, total, scanVars, out>>

NextProgress == Read

SpecProgress == InitProgress /\ [][NextProgress]_vars

-----------------------------------------------------------------------------
(* The report alone, on every registry of up to MaxPlates plates *)

PlateLetters == <<"K", "P", "U", "V">>
PlateDigits  == <<"1", "2", "I">>

\* Plates of one to three characters; their byte order is not the order of i.
PlateKey(i) ==
    LET a == PlateLetters[((i - 1) % 4) + 1]
        b == (i - 1) \div 4
    IN  IF b = 0 THEN <<a>>
        ELSE IF b <= 3 THEN <<a, PlateDigits[b]>>
        ELSE <<a, PlateDigits[b - 3], "1">>

PlateUniverse == { PlateKey(i) : i \in 1..MaxPlates }

RecordOf(k) == [ok |-> TRUE, id |-> k, make |-> <<"V", "W">>, model |-> <<"U", "p">>]

\* The state in which displayResults is called after an archive of one entry
\* that held one record for each plate of S.
InitDisplay ==
    /\ prog \in Progs
    /\ pc = "display"
    /\ exit = -1
    /\ fatal = "none"
    /\ entries = <<>>
    /\ newestZip = 0
    /\ out = NoOutput
    /\ total = 0
    /\ InitProgressReader
    /\ \E S \in SUBSET PlateUniverse :
          LET keys == SetToSeq(S) IN
          /\ scanned = [i \in 1..Len(keys) |-> RecordOf(keys[i])]
          /\ plates = [k \in S |-> IF prog = "part_000" THEN MakeModel(RecordOf(k))
                                                        ELSE <<>>]
          /\ processedCount = Len(keys)
          /\ count = Len(keys)
          /\ printedCount = Len(keys)
          /\ entryLog = <<[res |-> "ok", n |-> Len(keys)]>>
    /\ zipTotal = 1
    /\ zipLeft = 0
    /\ rcOpen = FALSE
    /\ warnings = 0
    /\ IF prog = "part_000"
       THEN /\ fileInput = <<"a", ".", "z", "i", "p">>
            /\ spool = "none"
            /\ steps = <<"archive">>
       ELSE /\ fileInput = <<>>
            /\ spool = "present"
            /\ steps = <<"connect", "login", "chdir", "list", "select",
                         "retrieve", "spool", "transfer", "archive">>

NextDisplay == DisplayResults \/ LegacyDisplayResults

SpecDisplay == InitDisplay /\ [][NextDisplay]_vars

-----------------------------------------------------------------------------
(* Vocabulary of the properties *)

Range(s) == { s[i] : i \in 1..Len(s) }

IsPrefix(s, t) == Len(s) <= Len(t) /\ SubSeq(t, 1, Len(s)) = s

\* The positions of the history at which a record was decoded with a
\* non-empty identifier: the records the scan has to register.
Registered == { i \in 1..Len(scanned) : scanned[i].ok /\ scanned[i].id # <<>> }

LastOf(k) == CHOOSE i \in Registered :
                /\ scanned[i].id = k
                /\ \A j \in Registered : scanned[j].id = k => j <= i

Failures(kinds) == { i \in 1..Len(entryLog) : entryLog[i].res \in kinds }

MalformedSeen == { i \in 1..Len(scanned) : ~scanned[i].ok }

\* The run is past the archive: every entry was dealt with and the summary
\* line was printed.
ArchiveFinished ==
    /\ pc \in {"display", "exited"}
    /\ fatal = "none"
    /\ "archive" \in Range(steps)

RemoteOrder == <<"connect", "login", "chdir", "list", "select", "retrieve",
                 "spool", "transfer", "archive", "report">>

-----------------------------------------------------------------------------
\* The entries of the listing that are files with a name ending in ".zip".
ZipFiles == { i \in 1..Len(entries) :
                entries[i].Type = "file" /\ HasSuffix(entries[i].Name, DotZip) }

(* C1: after the selection, the selected entry is a file whose name ends    *)
(* with ".zip", no such entry is newer, no such entry of the same time is   *)
(* listed before it, and the selection fails with "no zip files" exactly    *)
(* when the listing holds no file whose name ends with ".zip".              *)
C1_SelectsNewestZip ==
    pc # "select" =>
        IF ZipFiles = {}
        THEN fatal = "select" /\ exit # 0 /\ newestZip = 0
        ELSE /\ fatal = "none"
             /\ newestZip \in ZipFiles
             /\ \A j \in ZipFiles :
                   /\ entries[j].Time <= entries[newestZip].Time
                   /\ entries[j].Time = entries[newestZip].Time => newestZip <= j

\* The same statement of part_000 alone.
SelectsNewestZipInPart000 == prog = "part_000" => C1_SelectsNewestZip

-----------------------------------------------------------------------------
(* C2: at every point of a scan by streamXML the registry has no empty key, *)
(* its keys are the distinct non-empty identifiers of the records decoded   *)
(* so far (so its size is their number), and each key maps to make, one     *)
(* space and model of the last decoded record with that identifier.         *)
C2_RegistryMatchesScan ==
    prog = "part_000" =>
        /\ <<>> \notin DOMAIN plates
        /\ DOMAIN plates = { scanned[i].id : i \in Registered }
        /\ Cardinality(DOMAIN plates)
              = Cardinality({ scanned[i].id : i \in Registered })
        /\ \A k \in DOMAIN plates :
              plates[k] = scanned[LastOf(k)].make \o <<" ">> \o scanned[LastOf(k)].model

\* Two entries were scanned; the plate registered from the first was
\* overwritten in the second by a record with another make, and a record
\* without identifier was decoded: one plate, with the later description.
C2_Witness ==
    /\ prog = "part_000"
    /\ pc = "display"
    /\ entryLog = <<[res |-> "ok", n |-> 1], [res |-> "ok", n |-> 1]>>
    /\ Len(scanned) = 3
    /\ scanned[1].id = IdA /\ scanned[1].make = <<"V", "W">>
    /\ scanned[2].ok /\ scanned[2].id = <<>>
    /\ scanned[3].id = IdA /\ scanned[3].make = <<"K", "i", "a">>
    /\ DOMAIN plates = {IdA}
    /\ plates[IdA] = <<"K", "i", "a", " ", "U", "p">>

-----------------------------------------------------------------------------
ProgressIncreasing ==
    /\ \A i \in 1..Len(emitted) :
          emitted[i] > (IF i = 1 THEN 0 ELSE emitted[i - 1])
    /\ lastPrint = (IF emitted = <<>> THEN 0 ELSE emitted[Len(emitted)])
    /\ total <= 0 => emitted = <<>>

PrintsOnAdvance ==
    emitted' # emitted =>
        /\ total > 0
        /\ emitted' = Append(emitted, (current' * 100) \div total)
        /\ (current' * 100) \div total > lastPrint

-----------------------------------------------------------------------------
(* C4: displayResults prints the plates in ascending byte order, the first  *)
(* min(size, 10) of them, and the line "... and N more", N = size - 10,     *)
(* exactly when the registry holds more than 10.                            *)
C4_DisplaySortedAndBounded ==
    (pc = "exited" /\ exit = 0) =>
        LET n == Cardinality(DOMAIN plates) IN
        /\ Len(out.rows) = (IF n < 10 THEN n ELSE 10)
        /\ Range(out.rows) \subseteq DOMAIN plates
        /\ \A i, j \in 1..Len(out.rows) : i < j => StrLess(out.rows[i], out.rows[j])
        /\ \A k \in DOMAIN plates \ Range(out.rows) :
              \A i \in 1..Len(out.rows) : StrLess(out.rows[i], k)
        /\ out.more = (IF n > 10 THEN <<n - 10>> ELSE <<>>)

\* The same statement of part_000 alone.
DisplaySortedAndBoundedInPart000 == prog = "part_000" => C4_DisplaySortedAndBounded

-----------------------------------------------------------------------------
CountsWellFormed ==
    (printedCount # -1 /\ Failures({"err"}) = {}) =>
        /\ printedCount = Cardinality(Registered)
        /\ \A i \in Registered : scanned[i].id \in DOMAIN plates
        /\ warnings = Cardinality(MalformedSeen) + Cardinality(Failures({"openfail"}))
        /\ fatal = "none"
        /\ exit \in {-1, 0}

SkipsOnlyTheElement ==
    (Len(scanned') = Len(scanned) + 1 /\ ~scanned'[Len(scanned')].ok) =>
        /\ pc' = "stream"
        /\ rcOpen'
        /\ exit' = -1
        /\ warnings' = warnings + 1
        /\ UNCHANGED <<plates, count, processedCount, zipLeft, entryLog>>

(* C5: a record element that fails to decode costs one warning and nothing  *)
(* else: the scan stays in the same entry, the count and the registry are   *)
(* untouched; and a run whose entries all reached their end prints the      *)
(* number of decoded records with an identifier, has them all registered,   *)
(* has logged one warning per failed decode (and per entry that did not     *)
(* open) and does not fail.                                                 *)
C5_DecodeFailureSkipsOneElement == []CountsWellFormed /\ [][SkipsOnlyTheElement]_vars

\* An archive of one entry with a malformed record between two well-formed
\* ones: the count is 2, both plates are registered, one warning was logged
\* and the exit status is 0.
C5_Witness ==
    /\ pc = "exited"
    /\ exit = 0
    /\ zipTotal = 1
    /\ entryLog = <<[res |-> "ok", n |-> 2]>>
    /\ Len(scanned) = 3
    /\ scanned[1].id = IdA
    /\ ~scanned[2].ok
    /\ scanned[3].id = IdB
    /\ DOMAIN plates = {IdA, IdB}
    /\ printedCount = 2
    /\ warnings = 1

-----------------------------------------------------------------------------
(* C6: no run ends with the temporary file still present.                   *)
C6_SpoolRemovedAtExit == pc = "exited" => spool # "present"

\* The same statement of part_000 alone.
SpoolRemovedAtExitInPart000 == prog = "part_000" => C6_SpoolRemovedAtExit

-----------------------------------------------------------------------------
\* What ends a run according to the claim, read widely: the failures it
\* lists, with the change of directory, the creation of the temporary file
\* and a local path of an unsupported or unreadable type counted among them.
ListedFatal == {"connect", "login", "chdir", "list", "select", "retrieve",
                "tempfile", "transfer", "seek", "archive_open", "local_open",
                "unsupported", "panic"}

\* C7 as claimed: the exit status is non-zero exactly when one of the listed
\* failures occurred; stream errors, a local XML file included, leave it 0.
C7_NonZeroIffListedFatal ==
    pc = "exited" => ((exit # 0) <=> (fatal \in ListedFatal))

\* C7 as amended: the exit status is non-zero exactly when one of the listed
\* failures occurred or the token stream of a local XML file failed; a
\* stream error inside an archive never ends the run.
C7_NonZeroIffFatal ==
    pc = "exited" =>
        /\ (exit # 0) <=> (fatal \in ListedFatal \cup {"local_stream"})
        /\ exit = 0 <=> fatal = "none"
        /\ fatal = "local_stream" => ScansLocalXml
        /\ (~ScansLocalXml /\ "archive" \in Range(steps)
               /\ fatal # "archive_open") => exit = 0

\* A local XML file whose token stream failed after a record was registered:
\* the run ends with status 1.
C7_Witness ==
    /\ pc = "exited"
    /\ ScansLocalXml
    /\ fatal = "local_stream"
    /\ exit = 1
    /\ Cardinality(Registered) >= 1

-----------------------------------------------------------------------------
(* C8: on the remote path the steps are completed in the order connect,     *)
(* login, change directory, list, select, retrieve, spool, transfer,        *)
(* archive, report; a retrieval is issued and a temporary file exists only  *)
(* after a selection that found a ".zip" file; a run on a listing without   *)
(* one ends non-zero with neither.                                          *)
C8_RemoteStepsInOrder ==
    fileInput = <<>> =>
        /\ IsPrefix(steps, RemoteOrder)
        /\ (pc \in {"mktemp", "memdb", "copy", "seek"} \/ "retrieve" \in Range(steps)
              \/ spool # "none") =>
              /\ "select" \in Range(steps)
              /\ newestZip \in ZipFiles
        /\ ("list" \in Range(steps) /\ ZipFiles = {} /\ pc = "exited") =>
              /\ exit # 0
              /\ "retrieve" \notin Range(steps)
              /\ spool = "none"
        /\ (pc \in {"zip_open", "zip_loop", "stream"} \/ "archive" \in Range(steps)) =>
              "transfer" \in Range(steps)

\* A remote run that went through every step.
C8_Witness ==
    /\ fileInput = <<>>
    /\ pc = "exited"
    /\ steps = RemoteOrder
    /\ Len(scanned) > 0

-----------------------------------------------------------------------------
(* C9: an entry that cannot be opened or whose token stream fails is the    *)
(* only thing given up: no stream is open when the loop turns to the next   *)
(* entry, the records registered so far stay registered, every entry of the *)
(* archive is visited and the archive processing does not fail.             *)
C9_EntryFailureIsLocal ==
    /\ pc = "zip_loop" => ~rcOpen
    /\ (pc \in {"zip_loop", "stream"} /\ ~ScansLocalXml) =>
          /\ fatal = "none"
          /\ \A i \in Registered : scanned[i].id \in DOMAIN plates
    /\ ArchiveFinished =>
          /\ Len(entryLog) = zipTotal
          /\ zipLeft = 0
          /\ \A i \in Registered : scanned[i].id \in DOMAIN plates

\* The first entry failed in mid-stream after registering a plate, the
\* second was scanned to its end and registered another; both are there.
C9_Witness ==
    /\ ArchiveFinished
    /\ Len(entryLog) = 2
    /\ entryLog[1].res = "err" /\ entryLog[1].n = 1
    /\ entryLog[2].res = "ok" /\ entryLog[2].n = 1
    /\ DOMAIN plates = {IdA, IdB}

-----------------------------------------------------------------------------
(* C10: the count printed when the archive processing (or the scan of a     *)
(* local XML file) ends is the number of registry writes of the run.        *)
C10_PrintedCountIsWrites ==
    printedCount # -1 => printedCount = Cardinality(Registered)

\* The same statement of autoplate.go alone.
PrintedCountIsWritesInLegacy == prog = "autoplate" => C10_PrintedCountIsWrites

=============================================================================
